---- MODULE Spec2Model ----
(***************************************************************************)
(* A model of thamaji/statics: the Accept-Encoding parser                  *)
(* (ParseAcceptEncoding) and the static file server (FileServer): the      *)
(* index build over a directory walk, the per-file negotiating handler,    *)
(* the index.html redirect handler and the dispatcher.                     *)
(*                                                                         *)
(* Strings are sequences of one-character strings, so that splitting,      *)
(* trimming, searching and path cleaning are computed, not assumed.        *)
(* A QualityValue is kept in thousandths (1.0 is 1000): the weights of the *)
(* model have at most three fractional digits, and on those the order of   *)
(* the thousandths is the order of the float64 values.                     *)
(***************************************************************************)
EXTENDS Integers, Sequences, FiniteSets, TLC

VARIABLES
    values,     \* the header values handed to ParseAcceptEncoding
    result,     \* the slice ParseAcceptEncoding returned
    parsed,     \* ParseAcceptEncoding has returned
    option,     \* the option struct of FileServer
    tree,       \* the entries filepath.Walk visits, in its order
    walk,       \* how many entries of tree the walk has visited
    contents,   \* the routing table: URL path -> handler
    phase,      \* "build", "idle", "responded", "crashed"; "off": no server
    req,        \* the request being served
    resp,       \* the response written
    hops        \* the redirects the client has followed for this exchange

vars == <<values, result, parsed, option, tree, walk, contents, phase,
          req, resp, hops>>

parseVars == <<values, result, parsed>>
serverVars == <<option, tree, walk, contents, phase, req, resp, hops>>

(***************************************************************************)
(* Bounds                                                                  *)
(***************************************************************************)
\* tokens of a header built from the rich token set
MaxTokens == 2
\* tokens of a header built from the three-token set (long headers)
MaxLongTokens == 7
\* files present in the served tree
MaxFiles == 2
\* redirects a client follows in a row
MaxHops == 2

(***************************************************************************)
(* Strings                                                                 *)
(***************************************************************************)
Range(s) == {s[i] : i \in DOMAIN s}

SeqsUpTo(S, n) == UNION {[1..k -> S] : k \in 0..n}

Max(S) == CHOOSE x \in S : \A y \in S : y <= x

HasPrefix(s, p) == Len(s) >= Len(p) /\ SubSeq(s, 1, Len(p)) = p

HasSuffix(s, p) == Len(s) >= Len(p) /\ SubSeq(s, Len(s) - Len(p) + 1, Len(s)) = p

TrimSuffix(s, p) == IF HasSuffix(s, p) THEN SubSeq(s, 1, Len(s) - Len(p)) ELSE s

\* strings.LastIndex: the 0-based index of the last occurrence, or -1
LastIndex(s, sep) ==
    LET at == {i \in 0..(Len(s) - Len(sep)) : SubSeq(s, i + 1, i + Len(sep)) = sep}
    IN  IF at = {} THEN -1 ELSE Max(at)

\* the 0-based index of the first occurrence of the character c, or -1
IndexByte(s, c) ==
    LET at == {i \in 1..Len(s) : s[i] = c}
    IN  IF at = {} THEN -1 ELSE (CHOOSE i \in at : \A j \in at : i <= j) - 1

\* strings.Split(s, c) for a one-character separator: never empty
RECURSIVE Split(_, _)
Split(s, c) ==
    LET i == IndexByte(s, c)
    IN  IF i < 0 THEN <<s>>
        ELSE <<SubSeq(s, 1, i)>> \o Split(SubSeq(s, i + 2, Len(s)), c)

\* strings.Join
RECURSIVE Join(_, _)
Join(elems, sep) ==
    IF Len(elems) = 0 THEN <<>>
    ELSE IF Len(elems) = 1 THEN elems[1]
    ELSE elems[1] \o sep \o Join(Tail(elems), sep)

WhiteSpace == {" ", "\t"}

\* strings.TrimSpace
RECURSIVE TrimLeft(_)
TrimLeft(s) ==
    IF Len(s) > 0 /\ s[1] \in WhiteSpace THEN TrimLeft(Tail(s)) ELSE s

RECURSIVE TrimRight(_)
TrimRight(s) ==
    IF Len(s) > 0 /\ s[Len(s)] \in WhiteSpace
    THEN TrimRight(SubSeq(s, 1, Len(s) - 1)) ELSE s

TrimSpace(s) == TrimRight(TrimLeft(s))

(***************************************************************************)
(* strconv.ParseFloat, on the strings of the model: decimal digits with at *)
(* most one point and at least one digit parse; anything else is an error. *)
(* (Signs, exponents, hexadecimal floats, "inf" and "nan" are not among    *)
(* the inputs of the model.)                                               *)
(***************************************************************************)
DigitSeq == <<"0", "1", "2", "3", "4", "5", "6", "7", "8", "9">>

Digits == Range(DigitSeq)

DigitVal(c) == (CHOOSE i \in 1..10 : DigitSeq[i] = c) - 1

RECURSIVE DecValue(_)
DecValue(ds) ==
    IF Len(ds) = 0 THEN 0
    ELSE DecValue(SubSeq(ds, 1, Len(ds) - 1)) * 10 + DigitVal(ds[Len(ds)])

\* the fraction digits, in thousandths
FracValue(ds) ==
    LET d(i) == IF i <= Len(ds) THEN DigitVal(ds[i]) ELSE 0
    IN  d(1) * 100 + d(2) * 10 + d(3)

ParseFloat(s) ==
    LET dot   == IndexByte(s, ".")
        whole == IF dot < 0 THEN s ELSE SubSeq(s, 1, dot)
        frac  == IF dot < 0 THEN <<>> ELSE SubSeq(s, dot + 2, Len(s))
        ok    == /\ Range(whole) \subseteq Digits
                 /\ Range(frac) \subseteq Digits
                 /\ Len(whole) + Len(frac) > 0
    IN  IF ok THEN [err |-> FALSE, q |-> DecValue(whole) * 1000 + FracValue(frac)]
        ELSE [err |-> TRUE, q |-> 0]

(***************************************************************************)
(* ParseAcceptEncoding                                                     *)
(***************************************************************************)
QMarker == <<";", "q", "=">>

\* the condition under which a token is read as algorithm;q=weight
HasQuality(w) == LastIndex(w, QMarker) > 0

\* the body of the inner loop: what one token appends to result
ParseToken(w) ==
    LET i == LastIndex(w, QMarker)
    IN  IF HasQuality(w)
        THEN LET f == ParseFloat(TrimSpace(SubSeq(w, i + 4, Len(w))))
             IN  IF f.err THEN <<>>
                 ELSE <<[Algorithm    |-> TrimSpace(SubSeq(w, 1, i)),
                         QualityValue |-> f.q]>>
        ELSE <<[Algorithm |-> TrimSpace(w), QualityValue |-> 1000]>>

RECURSIVE ParseTokens(_)
ParseTokens(ws) ==
    IF Len(ws) = 0 THEN <<>>
    ELSE ParseToken(ws[1]) \o ParseTokens(Tail(ws))

\* the two loops: result before the sort
RECURSIVE Collect(_)
Collect(vs) ==
    IF Len(vs) = 0 THEN <<>>
    ELSE ParseTokens(Split(vs[1], ",")) \o Collect(Tail(vs))

\* the less function handed to sort.Slice, on positions a and b of coll
Less(coll, a, b) == coll[a].QualityValue > coll[b].QualityValue

Swap(p, i, j) == [p EXCEPT ![i] = p[j], ![j] = p[i]]

\* insertion sort, as package sort runs it on a slice of at most 12 elements:
\* p is a sequence of positions of coll
RECURSIVE SiftLeft(_, _, _)
SiftLeft(coll, p, j) ==
    IF j > 1 /\ Less(coll, p[j], p[j - 1])
    THEN SiftLeft(coll, Swap(p, j, j - 1), j - 1)
    ELSE p

RECURSIVE InsertionSortFrom(_, _, _)
InsertionSortFrom(coll, p, i) ==
    IF i > Len(p) THEN p
    ELSE InsertionSortFrom(coll, SiftLeft(coll, p, i), i + 1)

InsertionSort(coll, p) == InsertionSortFrom(coll, p, 2)

\* the ShellSort pass with gap 6 that package sort before Go 1.19 runs before
\* the insertion sort on a slice of 2..12 elements
RECURSIVE ShellPassFrom(_, _, _)
ShellPassFrom(coll, p, i) ==
    IF i > Len(p) THEN p
    ELSE ShellPassFrom(coll,
                       IF Less(coll, p[i], p[i - 6]) THEN Swap(p, i, i - 6) ELSE p,
                       i + 1)

ShellPass(coll, p) == ShellPassFrom(coll, p, 7)

IsPermutation(p, n) == Len(p) = n /\ Range(p) = 1..n

IsSortedBy(coll, p) ==
    \A i, j \in 1..Len(p) : i < j => ~Less(coll, p[j], p[i])

\* sort.Slice(result, less): the orders a build can leave result in. sort.Slice is
\* documented as not stable. On at most 12 elements Go 1.19 and later run the
\* insertion sort alone, and Go 1.16 to 1.18 (the source needs io/fs, so 1.16 at
\* least) run the gap-6 pass first; on more than 12 elements every version runs a
\* quicksort variant, taken here by its contract alone.
SortSliceOrders(coll) ==
    LET n  == Len(coll)
        id == [k \in 1..n |-> k]
    IN  IF n <= 12
        THEN {InsertionSort(coll, id), InsertionSort(coll, ShellPass(coll, id))}
        ELSE {p \in [1..n -> 1..n] : IsPermutation(p, n) /\ IsSortedBy(coll, p)}

Permute(coll, p) == [k \in 1..Len(p) |-> coll[p[k]]]

(***************************************************************************)
(* The parser on its own: a header is drawn, ParseAcceptEncoding runs      *)
(***************************************************************************)
Gzip == <<"g", "z", "i", "p">>
Deflate == <<"d", "e", "f", "l", "a", "t", "e">>
Br == <<"b", "r">>
Star == <<"*">>

Q(alg, w) == alg \o QMarker \o w

RichTokens ==
    { Gzip,
      Q(Br, <<"0", ".", "5">>),
      Q(<<" ">> \o Deflate \o <<" ">>, <<" ", "0", ".", "8", " ">>),
      Q(Gzip, <<"a", "b", "c">>),
      Q(<<>>, <<"0", ".", "5">>),
      Q(<<>>, <<"a", "b", "c">>),
      Q(Q(Star, <<"1">>), <<"0">>),
      <<>> }

LongTokens == { <<"a">>, <<"b">>, Q(<<"c">>, <<"0", ".", "5">>) }

\* a token sequence as header lines: one line, or two lines cut at k
HeaderLines(ts) ==
    {<<Join(ts, <<",">>)>>}
    \cup {<<Join(SubSeq(ts, 1, k), <<",">>), Join(SubSeq(ts, k + 1, Len(ts)), <<",">>)>> :
            k \in 0..Len(ts)}

ParseInputs ==
    {<<>>}
    \cup UNION {HeaderLines(ts) : ts \in SeqsUpTo(RichTokens, MaxTokens)}
    \cup {<<Join(ts, <<",">>)>> : ts \in SeqsUpTo(LongTokens, MaxLongTokens)}

ServerIdle ==
    /\ option = <<>>
    /\ tree = <<>>
    /\ walk = 0
    /\ contents = <<>>
    /\ phase = "off"
    /\ req = <<>>
    /\ resp = <<>>
    /\ hops = 0

InitParse ==
    /\ values \in ParseInputs
    /\ result = <<>>
    /\ parsed = FALSE
    /\ ServerIdle

\* ParseAcceptEncoding(values...)
ParseAcceptEncoding ==
    /\ ~parsed
    /\ phase = "off"
    /\ \E p \in SortSliceOrders(Collect(values)) :
          result' = Permute(Collect(values), p)
    /\ parsed' = TRUE
    /\ UNCHANGED <<values, serverVars>>

NextParse == ParseAcceptEncoding

SpecParse == InitParse /\ [][NextParse]_vars

(***************************************************************************)
(* Paths (package path)                                                    *)
(***************************************************************************)
Slash == <<"/">>
Dot == <<".">>
DotDot == <<".", ".">>

\* the segments path.Clean keeps, as a stack
RECURSIVE CleanSegs(_, _, _)
CleanSegs(segs, stack, rooted) ==
    IF Len(segs) = 0 THEN stack
    ELSE LET g == segs[1]
             next ==
                 IF g = <<>> \/ g = Dot THEN stack
                 ELSE IF g = DotDot
                      THEN IF Len(stack) > 0 /\ stack[Len(stack)] # DotDot
                           THEN SubSeq(stack, 1, Len(stack) - 1)
                           ELSE IF rooted THEN stack ELSE Append(stack, g)
                      ELSE Append(stack, g)
         IN  CleanSegs(Tail(segs), next, rooted)

\* path.Clean
Clean(p) ==
    IF Len(p) = 0 THEN Dot
    ELSE LET rooted == p[1] = "/"
             out == (IF rooted THEN Slash ELSE <<>>)
                        \o Join(CleanSegs(Split(p, "/"), <<>>, rooted), Slash)
         IN  IF Len(out) = 0 THEN Dot ELSE out

\* path.Join(a, b) for two non-empty elements
PathJoin(a, b) == Clean(a \o Slash \o b)

\* path.Split: the directory (with its final slash) and the file name
PathSplit(p) ==
    LET i == LastIndex(p, Slash)
    IN  [dir |-> SubSeq(p, 1, i + 1), file |-> SubSeq(p, i + 2, Len(p))]

\* filepath.Ext: the suffix of the final element from its last dot
Ext(p) ==
    LET base == PathSplit(p).file
        i == LastIndex(base, Dot)
    IN  IF i < 0 THEN <<>> ELSE SubSeq(base, i + 1, Len(base))

IndexHtml == <<"i", "n", "d", "e", "x", ".", "h", "t", "m", "l">>
AJson == <<"a", ".", "j", "s", "o", "n">>
CFile == <<"c">>
DDir == <<"d">>

(***************************************************************************)
(* Content types                                                           *)
(***************************************************************************)
\* the content types of the model, in the byte order Go compares strings in
MimeOrder ==
    << "application/atom+xml", "application/javascript", "application/json",
       "application/octet-stream", "application/rss+xml", "application/x-javascript",
       "image/svg+xml", "text/css", "text/html", "text/html; charset=utf-8",
       "text/javascript", "text/plain", "text/plain; charset=utf-8" >>

Rank(t) == CHOOSE i \in 1..Len(MimeOrder) : MimeOrder[i] = t

\* a >= b on strings
StrGeq(a, b) == Rank(a) >= Rank(b)

\* sort.Strings
RECURSIVE SortStrings(_)
SortStrings(ts) ==
    IF Len(ts) = 0 THEN <<>>
    ELSE LET m == CHOOSE i \in 1..Len(ts) : \A j \in 1..Len(ts) : StrGeq(ts[j], ts[i])
         IN  <<ts[m]>> \o SortStrings([k \in 1..(Len(ts) - 1) |->
                                           IF k < m THEN ts[k] ELSE ts[k + 1]])

\* sort.SearchStrings(a, x): the binary search of sort.Search, 0-based; it
\* returns the smallest index i with a[i] >= x, and len(a) when there is none
RECURSIVE SearchFrom(_, _, _, _)
SearchFrom(a, x, lo, hi) ==
    IF lo < hi
    THEN LET h == (lo + hi) \div 2
         IN  IF ~StrGeq(a[h + 1], x) THEN SearchFrom(a, x, h + 1, hi)
             ELSE SearchFrom(a, x, lo, h)
    ELSE lo

SearchStrings(a, x) == SearchFrom(a, x, 0, Len(a))

\* mime.TypeByExtension, for the extensions of the model
TypeByExtension(ext) ==
    IF ext = <<".", "j", "s", "o", "n">> THEN "application/json"
    ELSE IF ext = <<".", "h", "t", "m", "l">> THEN "text/html; charset=utf-8"
    ELSE ""

\* http.DetectContentType: never empty; the files without extension hold text
DetectContentType(body) == "text/plain; charset=utf-8"

(***************************************************************************)
(* FileServer: the options                                                 *)
(***************************************************************************)
DefaultCompressibleContentTypes ==
    << "application/atom+xml", "application/javascript", "application/json",
       "application/rss+xml", "application/x-javascript", "image/svg+xml",
       "text/css", "text/html", "text/javascript", "text/plain" >>

DefaultCompressibleContentLength == 1024

DefaultOption ==
    [compressibleContentTypes  |-> DefaultCompressibleContentTypes,
     compressibleContentLength |-> DefaultCompressibleContentLength]

WithCompressibleContentTypes(o, types) ==
    [o EXCEPT !.compressibleContentTypes = SortStrings(types)]

WithCompressibleContentLength(o, length) ==
    [o EXCEPT !.compressibleContentLength = length]

\* the option structs FileServer is built with: no Option given, and both
\* Options given (the types unsorted, as a caller may give them)
Options ==
    { DefaultOption,
      WithCompressibleContentLength(
          WithCompressibleContentTypes(DefaultOption,
              <<"text/plain; charset=utf-8", "text/html; charset=utf-8">>),
          DefaultCompressibleContentLength \div 2) }

(***************************************************************************)
(* The served directory: the entries filepath.Walk hands to the callback,  *)
(* in its order (depth first, names in lexical order).  rel is             *)
(* filepath.Rel(dir, fpath).  An entry whose lstat fails reaches the       *)
(* callback with a nil FileInfo.                                           *)
(***************************************************************************)
\* "" "/" joined: <<DDir, AJson>> is "d/a.json", <<<<>>, DDir, <<>>>> is "/d/"
P(segs) == Join(segs, Slash)

\* the files and directories a served tree is made of, in the order of the walk
Candidates ==
    << [rel |-> P(<<AJson>>),                 dir |-> FALSE],
       [rel |-> P(<<DDir>>),                  dir |-> TRUE],
       [rel |-> P(<<DDir, CFile>>),           dir |-> FALSE],
       [rel |-> P(<<DDir, DDir>>),            dir |-> TRUE],
       [rel |-> P(<<DDir, DDir, IndexHtml>>), dir |-> FALSE],
       [rel |-> P(<<DDir, IndexHtml>>),       dir |-> FALSE],
       [rel |-> P(<<IndexHtml>>),             dir |-> FALSE] >>

FileIndexes == {i \in 1..Len(Candidates) : ~Candidates[i].dir}

\* what a file is: its size against the threshold, or the step that fails on it
Profiles == {"small", "big", "lstat fails", "read fails"}

\* the entry of candidate i in a tree that holds the files of chosen
EntryOf(o, prof, i) ==
    LET c == Candidates[i]
    IN  IF c.dir
        THEN [rel |-> c.rel, dir |-> TRUE, lstat |-> "ok", read |-> "ok", size |-> 0]
        ELSE [rel |-> c.rel, dir |-> FALSE,
              lstat |-> IF prof[i] = "lstat fails" THEN "err" ELSE "ok",
              read  |-> IF prof[i] = "read fails" THEN "err" ELSE "ok",
              size  |-> IF prof[i] = "big" THEN o.compressibleContentLength
                        ELSE o.compressibleContentLength - 1]

\* a directory is walked into when it holds a file
Present(chosen, i) ==
    IF Candidates[i].dir
    THEN \E j \in chosen : HasPrefix(Candidates[j].rel, Candidates[i].rel \o Slash)
    ELSE i \in chosen

RECURSIVE TreeFrom(_, _, _, _)
TreeFrom(o, chosen, prof, i) ==
    IF i > Len(Candidates) THEN <<>>
    ELSE (IF Present(chosen, i) THEN <<EntryOf(o, prof, i)>> ELSE <<>>)
             \o TreeFrom(o, chosen, prof, i + 1)

\* the walk of the tree that holds the files of chosen, with their profiles:
\* the root directory first
TreeOf(o, chosen, prof) ==
    <<[rel |-> Dot, dir |-> TRUE, lstat |-> "ok", read |-> "ok", size |-> 0]>>
        \o TreeFrom(o, chosen, prof, 1)

Trees(o) ==
    UNION {{TreeOf(o, chosen, prof) : prof \in [chosen -> Profiles]} :
              chosen \in {S \in SUBSET FileIndexes : Cardinality(S) <= MaxFiles}}

(***************************************************************************)
(* FileServer: the walk callback                                           *)
(***************************************************************************)
Put(m, k, v) == [x \in DOMAIN m \cup {k} |-> IF x = k THEN v ELSE m[x]]

BaseName(rel) == PathSplit(rel).file

\* the content type detection of the callback
ContentTypeOf(e) ==
    LET byExt == TypeByExtension(Ext(e.rel))
    IN  IF byExt = "" THEN DetectContentType(e) ELSE byExt

\* the condition under which the callback precomputes the variants
Compressible(o, e) ==
    /\ e.size >= o.compressibleContentLength
    /\ ContentTypeOf(e) # ""
    /\ SearchStrings(o.compressibleContentTypes, ContentTypeOf(e)) >= 0

\* the keys of the compressed map
Variants == {Gzip, Deflate}

\* the handler closure built for a file: what it captures
ContentHandler(o, e) ==
    [kind        |-> "content",
     file        |-> e.rel,
     name        |-> BaseName(e.rel),
     contentType |-> ContentTypeOf(e),
     size        |-> e.size,
     compressed  |-> IF Compressible(o, e) THEN Variants ELSE {}]

RedirectHandler == [kind |-> "redirect"]

UPath(e) == PathJoin(Slash, e.rel)

\* a directory key that keeps its final slash
DirKeyUntrimmed(dir) == dir

\* the directory key of an index.html: its final slash trimmed, the root kept
DirKey(dir) ==
    IF dir # Slash /\ HasSuffix(dir, Slash) THEN TrimSuffix(dir, Slash) ELSE dir

\* an installation without the index.html case
InstallUnderOwnPath(tbl, o, e) == Put(tbl, UPath(e), ContentHandler(o, e))

\* the installation of a handler in contents
Install(tbl, o, e) ==
    LET upath == UPath(e)
        sp    == PathSplit(upath)
    IN  IF sp.file = IndexHtml
        THEN Put(Put(tbl, DirKey(sp.dir), ContentHandler(o, e)), upath, RedirectHandler)
        ELSE Put(tbl, upath, ContentHandler(o, e))

\* filepath.Walk returns when the last entry is visited, and FileServer
\* returns the dispatcher
Advance ==
    /\ walk' = walk + 1
    /\ phase' = IF walk + 1 = Len(tree) THEN "idle" ELSE "build"

Visiting == phase = "build" /\ walk < Len(tree)

\* the callback on an entry whose lstat failed: fi is nil and fi.IsDir()
\* panics; nothing recovers, FileServer does not return
WalkNilFileInfo ==
    /\ Visiting
    /\ tree[walk + 1].lstat = "err"
    /\ phase' = "crashed"
    /\ walk' = walk + 1
    /\ UNCHANGED <<option, tree, contents, req, resp, hops, parseVars>>

\* the callback on a directory
WalkDir ==
    /\ Visiting
    /\ tree[walk + 1].lstat = "ok"
    /\ tree[walk + 1].dir
    /\ Advance
    /\ UNCHANGED <<option, tree, contents, req, resp, hops, parseVars>>

\* the callback on a file os.ReadFile fails on
WalkUnreadable ==
    /\ Visiting
    /\ tree[walk + 1].lstat = "ok"
    /\ ~tree[walk + 1].dir
    /\ tree[walk + 1].read = "err"
    /\ Advance
    /\ UNCHANGED <<option, tree, contents, req, resp, hops, parseVars>>

\* the callback on a file it reads
WalkFile ==
    /\ Visiting
    /\ tree[walk + 1].lstat = "ok"
    /\ ~tree[walk + 1].dir
    /\ tree[walk + 1].read = "ok"
    /\ contents' = Install(contents, option, tree[walk + 1])
    /\ Advance
    /\ UNCHANGED <<option, tree, req, resp, hops, parseVars>>

(***************************************************************************)
(* FileServer: the handlers and the dispatcher                             *)
(***************************************************************************)
\* http.Header.Get: the first value, "" when there is none
HeaderGet(vals) == IF Len(vals) = 0 THEN <<>> ELSE vals[1]

\* a handler that negotiates whatever the Range header says
NegotiatesAlways(r) == TRUE

\* the handler negotiates an encoding when Header.Get("Range") is ""
Negotiates(r) == HeaderGet(r.range) = <<>>

\* a loop that passes over the preferences of weight 0
RECURSIVE FirstMatchAboveZero(_, _)
FirstMatchAboveZero(prefs, compressed) ==
    IF Len(prefs) = 0 THEN <<>>
    ELSE IF prefs[1].Algorithm \in compressed /\ prefs[1].QualityValue > 0
         THEN prefs[1].Algorithm
    ELSE FirstMatchAboveZero(Tail(prefs), compressed)

\* the loop over the preferences: the first algorithm that is a key of
\* compressed, "" when there is none
RECURSIVE FirstMatch(_, _)
FirstMatch(prefs, compressed) ==
    IF Len(prefs) = 0 THEN <<>>
    ELSE IF prefs[1].Algorithm \in compressed THEN prefs[1].Algorithm
    ELSE FirstMatch(Tail(prefs), compressed)

\* http.ServeContent on the raw body, Content-Type set first: it honours a
\* Range it is given and sets no Content-Encoding
ServeContent(h, r, vary) ==
    LET ranged == HeaderGet(r.range) # <<>>
    IN  [status          |-> IF ranged THEN 206 ELSE 200,
         vary            |-> vary,
         contentEncoding |-> <<>>,
         contentType     |-> h.contentType,
         location        |-> <<>>,
         via             |-> "ServeContent",
         file            |-> h.file,
         body            |-> IF r.method = "HEAD" THEN "none"
                             ELSE IF ranged THEN "raw range" ELSE "raw"]

\* the response with the precomputed variant
ServeCompressed(h, r, vary, algorithm) ==
    [status          |-> 200,
     vary            |-> vary,
     contentEncoding |-> algorithm,
     contentType     |-> h.contentType,
     location        |-> <<>>,
     via             |-> "compressed",
     file            |-> h.file,
     body            |-> IF r.method = "HEAD" THEN "none" ELSE "compressed"]

\* the handler installed under the literal index.html path
ServeRedirect(r, vary) ==
    [status          |-> 301,
     vary            |-> vary,
     contentEncoding |-> <<>>,
     contentType     |-> "",
     location        |-> <<".", "/">> \o (IF r.query # <<>> THEN <<"?">> \o r.query ELSE <<>>),
     via             |-> "redirect",
     file            |-> <<>>,
     body            |-> "none"]

\* option.notFound, http.NotFound by default: the dispatcher has set nothing
ServeNotFound(r) ==
    [status          |-> 404,
     vary            |-> r.preVary,
     contentEncoding |-> <<>>,
     contentType     |-> "text/plain; charset=utf-8",
     location        |-> <<>>,
     via             |-> "notFound",
     file            |-> <<>>,
     body            |-> IF r.method = "HEAD" THEN "none" ELSE "404 page not found"]

\* the dispatcher gives the path its leading slash (and stores it in r.URL.Path)
WithLeadingSlash(upath) == IF ~HasPrefix(upath, Slash) THEN Slash \o upath ELSE upath

\* a lookup of the path as it came, not cleaned
LookupKeyUncleaned(upath) == WithLeadingSlash(upath)

\* the key the dispatcher looks up
LookupKey(upath) == Clean(WithLeadingSlash(upath))

\* Header().Set in place of Header().Add
SetVary(header) == <<"Accept-Encoding">>

\* w.Header().Add("Vary", "Accept-Encoding") on the header of the response
AddVary(header) == Append(header, "Accept-Encoding")

NoParse ==
    /\ values' = <<>>
    /\ result' = <<>>
    /\ parsed' = FALSE

\* the handler of a file with precomputed variants, without a Range
ServeNegotiated(h, r, vary) ==
    \E p \in SortSliceOrders(Collect(r.acceptEncoding)) :
        LET prefs     == Permute(Collect(r.acceptEncoding), p)
            algorithm == FirstMatch(prefs, h.compressed)
        IN  /\ values' = r.acceptEncoding
            /\ result' = prefs
            /\ parsed' = TRUE
            /\ resp' = IF algorithm # <<>> THEN ServeCompressed(h, r, vary, algorithm)
                       ELSE ServeContent(h, r, vary)

\* the dispatcher on request r0
ServeHTTP(r0) ==
    LET r     == [r0 EXCEPT !.path = WithLeadingSlash(r0.path)]
        upath == LookupKey(r0.path)
    IN  /\ req' = r
        /\ phase' = "responded"
        /\ IF upath \notin DOMAIN contents
           THEN resp' = ServeNotFound(r) /\ NoParse
           ELSE LET next == contents[upath]
                    vary == AddVary(r.preVary)
                IN  IF next.kind = "redirect"
                    THEN resp' = ServeRedirect(r, vary) /\ NoParse
                    ELSE IF next.compressed # {} /\ Negotiates(r)
                         THEN ServeNegotiated(next, r, vary)
                         ELSE resp' = ServeContent(next, r, vary) /\ NoParse

(***************************************************************************)
(* The requests                                                            *)
(***************************************************************************)
Nope == <<"n", "o", "p", "e">>

ReqPaths ==
    { P(<<<<>>, <<>>>>),
      P(<<<<>>, IndexHtml>>),
      P(<<<<>>, IndexHtml, <<>>>>),
      P(<<<<>>, AJson>>),
      P(<<<<>>, DDir>>),
      P(<<<<>>, DDir, <<>>>>),
      P(<<<<>>, DDir, IndexHtml>>),
      P(<<DDir, IndexHtml>>),
      P(<<<<>>, DDir, <<>>, CFile>>),
      P(<<<<>>, DDir, DDir, IndexHtml>>),
      P(<<<<>>, DDir, DotDot, AJson>>),
      P(<<<<>>, Nope>>) }

AcceptEncodings ==
    { <<>>,
      <<Q(Gzip, <<"0">>)>>,
      <<Q(Br, <<"1", ".", "0">>)>>,
      <<Star>>,
      <<Q(Gzip, <<"0", ".", "1">>) \o <<",", " ">> \o Q(Deflate, <<"0", ".", "9">>)>>,
      <<Br, Deflate \o <<",">> \o Gzip>> }

Bytes0To10 == <<"b", "y", "t", "e", "s", "=", "0", "-", "1", "0">>

\* no Range header, a Range header with an empty value, a byte range
RangeHeaders == { <<>>, << <<>> >>, <<Bytes0To10>> }

NoQuery == <<>>
X1 == <<"x", "=", "1">>

\* the method, the query and the Vary values already in the response header
\* when the dispatcher runs
Shapes ==
    { [method |-> "GET",  query |-> NoQuery, preVary |-> <<>>],
      [method |-> "HEAD", query |-> X1,      preVary |-> <<"Origin">>] }

Requests ==
    { [path |-> p, query |-> s.query, method |-> s.method, acceptEncoding |-> ae,
       range |-> rg, preVary |-> s.preVary] :
        p \in ReqPaths, s \in Shapes, ae \in AcceptEncodings, rg \in RangeHeaders }

\* the path of the URL a client resolves the Location "./" to: the path of
\* the request up to its last slash
ResolveDotSlash(path) == SubSeq(path, 1, LastIndex(path, Slash) + 1)

\* the query of a Location
QueryOf(location) ==
    LET i == IndexByte(location, "?")
    IN  IF i < 0 THEN <<>> ELSE SubSeq(location, i + 2, Len(location))

(***************************************************************************)
(* The server: the build, then requests                                    *)
(***************************************************************************)
Init ==
    /\ option \in Options
    /\ tree \in Trees(option)
    /\ walk = 0
    /\ contents = <<>>
    /\ phase = "build"
    /\ req = <<>>
    /\ resp = <<>>
    /\ hops = 0
    /\ values = <<>>
    /\ result = <<>>
    /\ parsed = FALSE

\* a client sends a request
Request ==
    /\ phase = "idle"
    /\ \E r \in Requests : ServeHTTP(r)
    /\ hops' = 0
    /\ UNCHANGED <<option, tree, walk, contents>>

\* the client follows the 301: the same request, to the resolved Location
FollowRedirect ==
    /\ phase = "responded"
    /\ resp.status = 301
    /\ hops < MaxHops
    /\ ServeHTTP([req EXCEPT !.path = ResolveDotSlash(req.path),
                             !.query = QueryOf(resp.location)])
    /\ hops' = hops + 1
    /\ UNCHANGED <<option, tree, walk, contents>>

\* the exchange is over
Finish ==
    /\ phase = "responded"
    /\ phase' = "idle"
    /\ req' = <<>>
    /\ resp' = <<>>
    /\ hops' = 0
    /\ NoParse
    /\ UNCHANGED <<option, tree, walk, contents>>

Next ==
    \/ WalkNilFileInfo
    \/ WalkDir
    \/ WalkUnreadable
    \/ WalkFile
    \/ Request
    \/ FollowRedirect
    \/ Finish

Spec == Init /\ [][Next]_vars

(***************************************************************************)
(* Claims about ParseAcceptEncoding (checked under SpecParse)              *)
(***************************************************************************)
\* the place of entry i of coll after a stable sort by descending weight: behind
\* every heavier entry and every equal-weight entry that came before it
StablePlace(coll, i) ==
    Cardinality({j \in 1..Len(coll) : coll[j].QualityValue > coll[i].QualityValue})
    + Cardinality({j \in 1..(i - 1) : coll[j].QualityValue = coll[i].QualityValue})
    + 1

\* C4: the output of ParseAcceptEncoding is ordered by descending weight, and any
\* two entries of equal weight keep the relative order their tokens have across
\* the concatenated input (the sort is stable).
C4_DescendingAndStable ==
    parsed =>
        /\ \A i, j \in 1..Len(result) :
              i < j => result[i].QualityValue >= result[j].QualityValue
        /\ Len(result) = Len(Collect(values))
        /\ \A i \in 1..Len(Collect(values)) :
              result[StablePlace(Collect(values), i)] = Collect(values)[i]

\* what the claim says one token contributes: a token containing ;q= anywhere
\* (the start included) is split at the last marker and contributes only if the
\* suffix parses; a token without the marker contributes weight 1.0
ClaimedToken(w) ==
    LET i == LastIndex(w, QMarker)
    IN  IF i >= 0
        THEN LET f == ParseFloat(TrimSpace(SubSeq(w, i + 4, Len(w))))
             IN  IF f.err THEN <<>>
                 ELSE <<[Algorithm    |-> TrimSpace(SubSeq(w, 1, i)),
                         QualityValue |-> f.q]>>
        ELSE <<[Algorithm |-> TrimSpace(w), QualityValue |-> 1000]>>

RECURSIVE ClaimedTokens(_)
ClaimedTokens(ws) ==
    IF Len(ws) = 0 THEN <<>>
    ELSE ClaimedToken(ws[1]) \o ClaimedTokens(Tail(ws))

RECURSIVE ClaimedCollect(_)
ClaimedCollect(vs) ==
    IF Len(vs) = 0 THEN <<>>
    ELSE ClaimedTokens(Split(vs[1], ",")) \o ClaimedCollect(Tail(vs))

Count(x, s) == Cardinality({i \in DOMAIN s : s[i] = x})

SameElements(s, t) ==
    /\ Len(s) = Len(t)
    /\ \A x \in Range(s) \cup Range(t) : Count(x, s) = Count(x, t)

\* C5: every token containing ;q= (the marker at the start of the token included)
\* is split at the last marker and contributes a preference only if the suffix
\* parses as a float; an unparsable one is dropped, every other token still
\* contributes, and a token without the marker gets weight exactly 1.0.
C5_MarkerTokens ==
    parsed => SameElements(result, ClaimedCollect(values))

(***************************************************************************)
(* Claims about FileServer (checked under Spec)                            *)
(***************************************************************************)
\* FileServer has returned the dispatcher
Built == phase \in {"idle", "responded"}

Files == {tree[i] : i \in {j \in 1..Len(tree) : ~tree[j].dir}}

Readable == {e \in Files : e.lstat = "ok" /\ e.read = "ok"}

\* the keys under which the content of the file rel is served
ContentKeys(rel) ==
    {k \in DOMAIN contents : contents[k].kind = "content" /\ contents[k].file = rel}

Responded == phase = "responded"

Matched == Responded /\ LookupKey(req.path) \in DOMAIN contents

Target == contents[LookupKey(req.path)]

Listed(o, t) == \E i \in 1..Len(o.compressibleContentTypes) : o.compressibleContentTypes[i] = t

\* C1: a file has the gzip and deflate variants if and only if its length is
\* >= compressibleContentLength and its content type is a member of
\* compressibleContentTypes; a file below the threshold or of a non-listed type
\* has no variants and no response for it carries Content-Encoding.
C1_VariantsIffListedAndLong ==
    /\ \A k \in DOMAIN contents :
          contents[k].kind = "content" =>
              contents[k].compressed =
                  IF /\ contents[k].size >= option.compressibleContentLength
                     /\ Listed(option, contents[k].contentType)
                  THEN {Gzip, Deflate} ELSE {}
    /\ (Matched /\ Target.kind = "content"
           /\ ~(/\ Target.size >= option.compressibleContentLength
                /\ Listed(option, Target.contentType)))
          => resp.contentEncoding = <<>>

\* the request is for a resource with precomputed variants
ForCompressed == Matched /\ Target.kind = "content" /\ Target.compressed # {}

Keyed(prefs, compressed) == {i \in 1..Len(prefs) : prefs[i].Algorithm \in compressed}

\* C3: for a resource with variants {gzip, deflate} and a request with no Range
\* header, Content-Encoding is the first algorithm of the preference order
\* ParseAcceptEncoding returned that is a key of the variant set, whatever its
\* weight (0 included); when no algorithm of the order is a key (only br, only
\* the wildcard), the raw body is served with no Content-Encoding.
C3_FirstKeyedPreferenceWins ==
    (ForCompressed /\ Len(req.range) = 0) =>
        /\ Target.compressed = {Gzip, Deflate}
        /\ parsed
        /\ values = req.acceptEncoding
        /\ \E p \in SortSliceOrders(Collect(values)) : result = Permute(Collect(values), p)
        /\ LET keyed == Keyed(result, {Gzip, Deflate})
           IN  IF keyed = {}
               THEN /\ resp.contentEncoding = <<>>
                    /\ resp.via = "ServeContent"
                    /\ resp.body \in {"raw", "none"}
               ELSE /\ \E i \in keyed :
                          /\ \A j \in keyed : i <= j
                          /\ resp.contentEncoding = result[i].Algorithm
                    /\ resp.via = "compressed"
                    /\ resp.status = 200

C3_Witness ==
    /\ ForCompressed
    /\ Len(req.range) = 0
    /\ req.acceptEncoding = <<Q(Gzip, <<"0">>)>>
    /\ result = <<[Algorithm |-> Gzip, QualityValue |-> 0]>>
    /\ resp.contentEncoding = Gzip

\* the directory of a relative file path as a URL path: "/" for the root
DirectoryPath(rel) ==
    LET segs == Split(rel, "/")
    IN  Slash \o Join(SubSeq(segs, 1, Len(segs) - 1), Slash)

IsIndex(e) == BaseName(e.rel) = IndexHtml

\* C6: for a file named index.html the table maps the containing directory path
\* (no final slash, except the root) to the file's content handler and the
\* literal .../index.html path to a redirect handler, which answers 301 with
\* Location "./" plus "?" and the raw query when there is one, and serves no
\* body; a file with another name has exactly one key, its own URL path.
C6_IndexAliasAndRedirect ==
    /\ Built =>
          /\ \A e \in Readable :
                IF IsIndex(e)
                THEN /\ ContentKeys(e.rel) = {DirectoryPath(e.rel)}
                     /\ Slash \o e.rel \in DOMAIN contents
                     /\ contents[Slash \o e.rel].kind = "redirect"
                ELSE ContentKeys(e.rel) = {Slash \o e.rel}
          /\ \A k \in DOMAIN contents :
                contents[k].kind = "redirect" =>
                    \E e \in Readable : IsIndex(e) /\ k = Slash \o e.rel
    /\ (Matched /\ Target.kind = "redirect") =>
          /\ resp.status = 301
          /\ resp.location =
                 IF req.query = <<>> THEN <<".", "/">> ELSE <<".", "/", "?">> \o req.query
          /\ resp.body = "none"
          /\ resp.file = <<>>

C6_Witness ==
    /\ Responded
    /\ hops = 0
    /\ req.path = P(<<<<>>, DDir, IndexHtml>>)
    /\ req.query = X1
    /\ resp.status = 301
    /\ resp.location = <<".", "/", "?", "x", "=", "1">>
    /\ ContentKeys(P(<<DDir, IndexHtml>>)) = {P(<<<<>>, DDir>>)}
    /\ ContentKeys(P(<<AJson>>)) = {P(<<<<>>, AJson>>)}

\* C7: the dispatcher adds Vary: Accept-Encoding, keeping the values already
\* there, if and only if the normalized path is a key of the table (content,
\* compressed, ranged and redirect responses alike); a request for another path
\* goes to the not-found handler alone, with no Vary added.
C7_VaryIffMatched ==
    Responded =>
        IF LookupKey(req.path) \in DOMAIN contents
        THEN /\ resp.vary = req.preVary \o <<"Accept-Encoding">>
             /\ resp.via \in {"ServeContent", "compressed", "redirect"}
        ELSE /\ resp.vary = req.preVary
             /\ resp.via = "notFound"

C7_Witness ==
    /\ Responded
    /\ req.preVary = <<"Origin">>
    /\ resp.via = "compressed"
    /\ resp.vary = <<"Origin", "Accept-Encoding">>

\* C8: when the stat or the read of one entry fails, that entry alone is left
\* out of the table: the build does not abort or crash, the walk goes on, and
\* every other readable file is installed.
C8_FailedEntryAloneSkipped ==
    /\ phase # "crashed"
    /\ Built =>
          \A e \in Files :
              (e.lstat = "ok" /\ e.read = "ok") <=> ContentKeys(e.rel) # {}

NoEmptyOrDotSegment(k) ==
    LET segs == Split(k, "/")
    IN  \A i \in 2..Len(segs) : segs[i] # <<>> /\ segs[i] # Dot /\ segs[i] # DotDot

\* C9: every key of the table is absolute (begins with /), slash-normalized (a
\* fixed point of the dispatcher's path cleaning) and has no final slash unless
\* it is the root; the directory keys of index.html files included.
C9_KeysNormalized ==
    \A k \in DOMAIN contents :
        /\ HasPrefix(k, Slash)
        /\ LookupKey(k) = k
        /\ k = Slash \/ (~HasSuffix(k, Slash) /\ NoEmptyOrDotSegment(k))

C9_Witness ==
    /\ Built
    /\ {Slash, P(<<<<>>, DDir>>), P(<<<<>>, DDir, IndexHtml>>), P(<<<<>>, IndexHtml>>)}
           \subseteq DOMAIN contents

\* the request is for the literal path of an installed index.html
LiteralIndexRequest ==
    /\ Responded
    /\ hops = 0
    /\ \E e \in Readable : IsIndex(e) /\ req.path = Slash \o e.rel

\* C10: a client that requests the literal .../index.html path of an index.html
\* at any depth gets the 301 and, following its Location, is dispatched to the
\* content handler of that same index.html, not to another redirect nor to the
\* not-found handler: the chain ends after one hop.
C10_RedirectEndsAtContent ==
    /\ [](LiteralIndexRequest => resp.status = 301)
    /\ [][(LiteralIndexRequest /\ hops' = 1) =>
              /\ resp'.via \in {"ServeContent", "compressed"}
              /\ resp'.status \in {200, 206}
              /\ Slash \o resp'.file = req.path
              /\ req'.path \o IndexHtml = req.path]_vars

C10_Witness ==
    /\ Responded
    /\ hops = 1
    /\ req.path = P(<<<<>>, DDir, DDir, <<>>>>)
    /\ resp.file = P(<<DDir, DDir, IndexHtml>>)
    /\ resp.via \in {"ServeContent", "compressed"}

====
